---- MODULE Spec2Model ----
(***************************************************************************)
(* emigrate: a schema-migration engine.  The Migrator reads the stored     *)
(* version, sorts its migrations, and applies every migration after the    *)
(* current one, each in a transaction of its own.                          *)
(*                                                                         *)
(* The database is the committed state `db` plus one open transaction per  *)
(* migrator (`tx`).  m.db.QueryRow reads the committed state; statements   *)
(* executed on a *sql.Tx stay in `tx` until Commit.  Every database        *)
(* operation may fail.                                                     *)
(*                                                                         *)
(* Migrator.Init creates the emigrate table and its row in a transaction   *)
(* of its own (`store`, `initTx`).  MigrationsFromDir reads a directory    *)
(* (`fs`), groups the migration files by version and builds one migration  *)
(* per group.                                                              *)
(***************************************************************************)
EXTENDS Integers, Sequences, FiniteSets, TLC

\* ------------------------------------------------------------------ bounds
MaxVer == 3        \* migration versions are drawn from 1..MaxVer
MaxLen == 3        \* longest migration list handed to NewMigrator
MaxCalls == 2      \* Upgrade/UpgradeToVersion calls per migrator
RaceCalls == 1     \* calls per migrator while two migrators race
MaxInits == 2      \* Init calls per migrator
InitUpgrades == 1  \* upgrade calls of a migrator that also calls Init
MaxFiles == 3      \* entries in the directory MigrationsFromDir reads
MaxOps == 2        \* Upgrade/Downgrade calls on one migration value

Migrators == {"m1", "m2"}
Versions == 1..MaxVer
Targets == 0..(MaxVer + 1)

\* ------------------------------------------------------------------ errors
MissingCurrentMigration == "Cannot find current migration"
DowngradesUnsupported == "Downgrades are not currently supported"
MigrationVersionChanged == "Current migration version changed"
InitVersionMismatch == "Migration version mismatch during init"
NoError == "nil"
\* errors produced by the database driver and by a migration's action
ReadError == "db failed"
BeginError == "begin failed"
UpgradeError == "migrate failed"
ExecError == "exec failed"
CommitError == "commit failed"

\* ------------------------------------------------------------- log entries
AlreadyCurrentMessage == <<"emigrate: database already at current version", 0>>
UpgradedMessage(v) == <<"emigrate: upgraded to version %d", v>>

VARIABLES
    given,       \* the list handed to NewMigrator, as given
    migrations,  \* m.migrations: the list each migrator owns (versions)
    db,          \* committed database: version row, effects of upgrade actions
    tx,          \* per migrator: statements of the transaction being built
    openTx,      \* per migrator: transactions begun and neither committed nor rolled back
    pc,          \* per migrator: position inside UpgradeToVersion / apply
    target,      \* argument `version` of UpgradeToVersion
    viaUpgrade,  \* the call entered through Upgrade()
    current,     \* local `current` of UpgradeToVersion (function.go:217)
    pending,     \* migrations the range loop has still to visit
    migration,   \* argument of apply: version of the migration being applied
    log,         \* returned log (<<>> stands for nil)
    err,         \* returned error
    calls,       \* calls made so far
    invoked,     \* versions whose Upgrade action ran in this call, in order
    begins,      \* db.Begin() calls of this call
    applied,     \* versions committed by this call, in order
    failStage,   \* where the call failed ("" if it has not)
    upgradeFailed, \* version whose Upgrade action returned an error in this call (0: none)
    store,       \* committed database: the emigrate table and the number of its rows
    init,        \* per migrator: the Init call (counters, result, what it found)
    initTx,      \* per migrator: statements of the transaction Init is building
    fs,          \* the directory: its entries
    dpc,         \* position inside getMigrations
    names,       \* groupByVersion's map: version -> list of nameInfo
    dms,         \* getMigrations' slice `ms` of migrations built so far
    dret,        \* what getMigrations returned
    mig,         \* a migration value: its variant, version, up and down step
    mtx,         \* the statements executed on the transaction handed to it
    mret         \* the last Upgrade/Downgrade call on it and what it returned

vars == <<migrations, db, tx, openTx, pc, target, viaUpgrade, current, pending,
          migration, log, err, calls, invoked, begins, applied, failStage,
          given, upgradeFailed, store, init, initTx, fs, dpc, names, dms, dret,
          mig, mtx, mret>>

initVars == <<store, init, initTx>>
dirVars == <<fs, dpc, names, dms, dret>>
migVars == <<mig, mtx, mret>>

\* ---------------------------------------------------------------- helpers
RECURSIVE SeqsUpTo(_)
SeqsUpTo(n) ==
    IF n = 0 THEN {<<>>}
    ELSE LET S == SeqsUpTo(n - 1)
         IN S \cup {Append(s, v) : s \in {t \in S : Len(t) = n - 1}, v \in Versions}

MigrationLists == SeqsUpTo(MaxLen)

Range(s) == {s[i] : i \in 1..Len(s)}

\* sort.Sort(byVersion(m.migrations)): ascending by Version()
RECURSIVE Insert(_, _)
Insert(s, v) ==
    IF s = <<>> THEN <<v>>
    ELSE IF v < Head(s) THEN <<v>> \o s
    ELSE <<Head(s)>> \o Insert(Tail(s), v)

RECURSIVE SortByVersion(_)
SortByVersion(s) ==
    IF s = <<>> THEN <<>> ELSE Insert(SortByVersion(Tail(s)), Head(s))

\* sort.Search(n, f): smallest index i in [0, n) with f(i), by bisection;
\* indices are 0-based as in the source, a[i] is the sequence's element i+1
RECURSIVE SortSearch(_, _, _, _)
SortSearch(a, version, i, j) ==
    IF i < j
    THEN LET h == (i + j) \div 2
         IN IF ~(a[h + 1] >= version)
            THEN SortSearch(a, version, h + 1, j)
            ELSE SortSearch(a, version, i, h)
    ELSE i

\* byVersion.Search: <<idx, ok>>
SearchAnyAtIndex(a, version) ==
    LET idx == SortSearch(a, version, 0, Len(a))
    IN <<idx, idx < Len(a)>>

Search(a, version) ==
    LET idx == SortSearch(a, version, 0, Len(a))
    IN IF idx < Len(a) /\ a[idx + 1] = version
       THEN <<idx, TRUE>>
       ELSE <<idx, FALSE>>

\* Migrator.MaxVersion
RECURSIVE MaxVersionFrom(_, _)
MaxVersionFrom(ms, max) ==
    IF ms = <<>> THEN max
    ELSE MaxVersionFrom(Tail(ms), IF Head(ms) >= max THEN Head(ms) ELSE max)

MaxVersionByLen(ms) == Len(ms)

MaxVersion(ms) == MaxVersionFrom(ms, 0)

\* migrations[idx+1:] for a 0-based idx
SliceAfter(ms, idx) == SubSeq(ms, idx + 2, Len(ms))

\* the comparisons of UpgradeToVersion on the version it read
PreCheckNoEqual(cur, version) ==
    IF version < cur THEN DowngradesUnsupported
    ELSE "apply"

PreCheckNoDowngrade(cur, version) ==
    IF cur = version THEN "current"
    ELSE "apply"

PreCheck(cur, version) ==
    IF version < cur THEN DowngradesUnsupported
    ELSE IF cur = version THEN "current"
    ELSE "apply"

\* the test of apply on the version it re-read
VersionChangedNever(cur, v) == FALSE

VersionChangedIfNotBelow(cur, v) == cur >= v

VersionChanged(cur, v) == cur # v - 1

\* the range loop moves to the next migration
RestAfterFirstOnly(ms) == <<>>

Rest(ms) == Tail(ms)

\* --------------------------------------------------------------- database
EmptyTx == [ups |-> {}, wrote |-> FALSE, ver |-> 0]

\* m.db.QueryRow(QueryGetCurrentVersion): the committed version row
CurrentVersion == db.version

\* the query finds a row only if the emigrate table exists and has one
StoreReady == store.table /\ store.rows > 0

\* the version apply compares: re-read from the database
ApplyCurrentCached(p) == current[p]

ApplyCurrent(p) == CurrentVersion

\* tx.Exec inside migration.Upgrade(tx): the action's effect joins the transaction
TxUpgradeNothing(t, v) == t

TxUpgrade(t, v) == [t EXCEPT !.ups = @ \cup {v}]

\* tx.Exec(QuerySetVersion(version))
TxSetVersionSkip(t, v) == t

TxSetVersion(t, v) == [t EXCEPT !.wrote = TRUE, !.ver = v]

\* tx.Commit(): everything in the transaction becomes visible at once
DbCommit(d, t) ==
    [version |-> IF t.wrote THEN t.ver ELSE d.version,
     effects |-> [v \in Versions |-> d.effects[v] + (IF v \in t.ups THEN 1 ELSE 0)],
     writes  |-> [v \in Versions |-> d.writes[v] + (IF t.wrote /\ t.ver = v THEN 1 ELSE 0)]]

\* tx.Rollback(): nothing of the transaction reaches the database
DbRollbackKeeps(d, t) == DbCommit(d, t)

DbRollback(d, t) == d

\* a database Init has not touched yet
FreshStore == [table |-> FALSE, rows |-> 0]
EmptyInitTx == [create |-> FALSE, insert |-> FALSE]
NoInit == [pc |-> "idle", calls |-> 0, begins |-> 0, execs |-> 0, err |-> NoError,
           returned |-> FALSE, wasReady |-> FALSE, readOk |-> FALSE, version0 |-> 0]


\* A directory entry is its name, split where nameRegexp splits it, and
\* whether it is a directory.  digits, ext: sequences of characters.
File(digits, sep, way, ext) ==
    [digits |-> digits, sep |-> sep, way |-> way, ext |-> ext, isDir |-> FALSE]

NoName == File(<<>>, "", "", <<>>)

\* errors of discovery
FileError(kind, way, version, name) ==
    [kind |-> kind, way |-> way, version |-> version, name |-> name]

NoFileError == FileError("nil", "", 0, NoName)

\* getMigrations has not returned
NoReturn == [done |-> FALSE, ok |-> FALSE, ms |-> <<>>, err |-> NoFileError]

\* no migration value is under test; no call on it was made
NoMigrationValue == [variant |-> "", version |-> 0, up |-> "", down |-> ""]
NoCall == [op |-> "", calls |-> 0, err |-> NoError, panicked |-> FALSE, before |-> <<>>]

\* ------------------------------------------------------------------- Init
\* Two migrators built from the same list against one database: either a
\* fresh one (no emigrate table), or an initialized one whose version row
\* holds v0 because migrations 1..v0 were applied before.
InitWith(lists) ==
    \E list \in lists, v0 \in 0..MaxVer, fresh \in BOOLEAN :
        /\ fresh => v0 = 0
        /\ mig = NoMigrationValue
        /\ mtx = <<>>
        /\ mret = NoCall
        /\ store = IF fresh THEN FreshStore ELSE [table |-> TRUE, rows |-> 1]
        /\ init = [p \in Migrators |-> NoInit]
        /\ initTx = [p \in Migrators |-> EmptyInitTx]
        /\ fs = {}
        /\ dpc = "off"
        /\ names = <<>>
        /\ dms = <<>>
        /\ dret = NoReturn
        /\ given = list
        /\ migrations = [p \in Migrators |-> list]
        /\ db = [version |-> v0,
                 effects |-> [v \in Versions |-> IF v <= v0 THEN 1 ELSE 0],
                 writes  |-> [v \in Versions |-> IF v <= v0 THEN 1 ELSE 0]]
        /\ tx = [p \in Migrators |-> EmptyTx]
        /\ openTx = [p \in Migrators |-> 0]
        /\ pc = [p \in Migrators |-> "idle"]
        /\ target = [p \in Migrators |-> 0]
        /\ viaUpgrade = [p \in Migrators |-> FALSE]
        /\ current = [p \in Migrators |-> 0]
        /\ pending = [p \in Migrators |-> <<>>]
        /\ migration = [p \in Migrators |-> 0]
        /\ log = [p \in Migrators |-> <<>>]
        /\ err = [p \in Migrators |-> NoError]
        /\ calls = [p \in Migrators |-> 0]
        /\ invoked = [p \in Migrators |-> <<>>]
        /\ begins = [p \in Migrators |-> 0]
        /\ applied = [p \in Migrators |-> <<>>]
        /\ failStage = [p \in Migrators |-> ""]
        /\ upgradeFailed = [p \in Migrators |-> 0]

Init == InitWith(MigrationLists)

\* the lists handed to a migrator that also calls Init: those already in
\* version order (UpgradeToVersion sorts the list before it uses it)
AscendingLists == {list \in MigrationLists : list = SortByVersion(list)}

InitStore == InitWith(AscendingLists)

\* ---------------------------------------------------------------- actions
\* entry of a call: fresh locals
Enter(p, version, automatic) ==
    /\ pc[p] = "idle"
    /\ calls[p] < MaxCalls
    /\ calls' = [calls EXCEPT ![p] = @ + 1]
    /\ pc' = [pc EXCEPT ![p] = "read"]
    /\ target' = [target EXCEPT ![p] = version]
    /\ viaUpgrade' = [viaUpgrade EXCEPT ![p] = automatic]
    /\ current' = [current EXCEPT ![p] = 0]
    /\ pending' = [pending EXCEPT ![p] = <<>>]
    /\ migration' = [migration EXCEPT ![p] = 0]
    /\ log' = [log EXCEPT ![p] = <<>>]
    /\ err' = [err EXCEPT ![p] = NoError]
    /\ invoked' = [invoked EXCEPT ![p] = <<>>]
    /\ begins' = [begins EXCEPT ![p] = 0]
    /\ applied' = [applied EXCEPT ![p] = <<>>]
    /\ failStage' = [failStage EXCEPT ![p] = ""]
    /\ upgradeFailed' = [upgradeFailed EXCEPT ![p] = 0]
    /\ UNCHANGED <<given, migrations, db, tx, openTx>>
    /\ UNCHANGED <<initVars, dirVars, migVars>>

\* Migrator.Upgrade: maxVersion := m.MaxVersion(); UpgradeToVersion(maxVersion)
Upgrade(p) == Enter(p, MaxVersion(migrations[p]), TRUE)

\* Migrator.UpgradeToVersion(version), called directly
UpgradeToVersion(p) == \E version \in Targets : Enter(p, version, FALSE)

\* return nil, e
FailKeepsLog(p, e, stage) ==
    /\ pc' = [pc EXCEPT ![p] = "idle"]
    /\ err' = [err EXCEPT ![p] = e]
    /\ log' = log
    /\ failStage' = [failStage EXCEPT ![p] = stage]

Fail(p, e, stage) ==
    /\ pc' = [pc EXCEPT ![p] = "idle"]
    /\ err' = [err EXCEPT ![p] = e]
    /\ log' = [log EXCEPT ![p] = <<>>]
    /\ failStage' = [failStage EXCEPT ![p] = stage]

\* the error return of UpgradeToVersion after CurrentVersion() failed
ReadFailedProceeds(p) ==
    /\ failStage' = [failStage EXCEPT ![p] = "read"]
    /\ migrations' = [migrations EXCEPT ![p] = SortByVersion(@)]
    /\ pending' = [pending EXCEPT ![p] = SortByVersion(migrations[p])]
    /\ pc' = [pc EXCEPT ![p] = "loop"]
    /\ UNCHANGED <<current, err, log>>

ReadFailed(p) ==
    /\ Fail(p, ReadError, "read")
    /\ UNCHANGED <<migrations, current, pending>>

\* UpgradeToVersion up to the range loop: read the version, compare it with
\* the target, sort, and cut the list after the current migration
ReadVersion(p) ==
    /\ pc[p] = "read"
    /\ \/ ReadFailed(p)
       \/ StoreReady /\
          LET cur == CurrentVersion
              check == PreCheck(cur, target[p])
              sorted == SortByVersion(migrations[p])
              found == Search(sorted, cur)
          IN /\ current' = [current EXCEPT ![p] = cur]
             /\ IF check = DowngradesUnsupported
                THEN /\ Fail(p, DowngradesUnsupported, "check")
                     /\ UNCHANGED <<migrations, pending>>
                ELSE IF check = "current"
                THEN /\ pc' = [pc EXCEPT ![p] = "idle"]
                     /\ log' = [log EXCEPT ![p] = <<AlreadyCurrentMessage>>]
                     /\ UNCHANGED <<migrations, pending, err, failStage>>
                ELSE /\ migrations' = [migrations EXCEPT ![p] = sorted]
                     /\ IF cur > 0 /\ ~found[2]
                        THEN /\ Fail(p, MissingCurrentMigration, "search")
                             /\ UNCHANGED pending
                        ELSE /\ pending' = [pending EXCEPT ![p] =
                                    IF cur > 0 THEN SliceAfter(sorted, found[1])
                                    ELSE sorted]
                             /\ pc' = [pc EXCEPT ![p] = "loop"]
                             /\ UNCHANGED <<log, err, failStage>>
    /\ UNCHANGED <<given, db, tx, openTx, target, viaUpgrade, migration, calls,
                   invoked, begins, applied, upgradeFailed>>
    /\ UNCHANGED <<initVars, dirVars, migVars>>

\* the error return of apply after m.db.Begin() failed
BeginFailedContinue(p) ==
    /\ failStage' = [failStage EXCEPT ![p] = "begin"]
    /\ pc' = [pc EXCEPT ![p] = "verify"]
    /\ UNCHANGED <<tx, openTx, err, log>>

BeginFailed(p) ==
    /\ Fail(p, BeginError, "begin")
    /\ UNCHANGED <<tx, openTx>>

\* head of the range loop: return the log when the list is exhausted,
\* otherwise enter apply and begin its transaction
Begin(p) ==
    /\ pc[p] = "loop"
    /\ IF pending[p] = <<>>
       THEN /\ pc' = [pc EXCEPT ![p] = "idle"]
            /\ UNCHANGED <<migration, pending, tx, openTx, begins, err, log, failStage>>
       ELSE /\ migration' = [migration EXCEPT ![p] = Head(pending[p])]
            /\ pending' = [pending EXCEPT ![p] = Rest(@)]
            /\ begins' = [begins EXCEPT ![p] = @ + 1]
            /\ \/ BeginFailed(p)
               \/ /\ tx' = [tx EXCEPT ![p] = EmptyTx]
                  /\ openTx' = [openTx EXCEPT ![p] = @ + 1]
                  /\ pc' = [pc EXCEPT ![p] = "verify"]
                  /\ UNCHANGED <<err, log, failStage>>
    /\ UNCHANGED <<given, migrations, db, target, viaUpgrade, current, calls,
                   invoked, applied, upgradeFailed>>
    /\ UNCHANGED <<initVars, dirVars, migVars>>

\* apply re-reads the stored version and compares it with Version()-1;
\* both error returns leave the transaction as it is
Verify(p) ==
    /\ pc[p] = "verify"
    /\ \/ Fail(p, ReadError, "reread")
       \/ StoreReady /\
          IF VersionChanged(ApplyCurrent(p), migration[p])
          THEN Fail(p, MigrationVersionChanged, "verify")
          ELSE /\ pc' = [pc EXCEPT ![p] = "upgrade"]
               /\ UNCHANGED <<err, log, failStage>>
    /\ UNCHANGED <<given, migrations, db, tx, openTx, target, viaUpgrade, current,
                   pending, migration, calls, invoked, begins, applied,
                   upgradeFailed>>
    /\ UNCHANGED <<initVars, dirVars, migVars>>

\* the error return of apply after migration.Upgrade(tx) failed: tx.Rollback()
UpgradeFailedContinue(p) ==
    /\ pc' = [pc EXCEPT ![p] = "setVersion"]
    /\ UNCHANGED <<db, tx, openTx, err, log, failStage>>

UpgradeFailed(p) ==
    /\ Fail(p, UpgradeError, "upgrade")
    /\ db' = DbRollback(db, tx[p])
    /\ tx' = [tx EXCEPT ![p] = EmptyTx]
    /\ openTx' = [openTx EXCEPT ![p] = @ - 1]

\* migration.Upgrade(tx); on error tx.Rollback() and return the error
RunUpgrade(p) ==
    /\ pc[p] = "upgrade"
    /\ invoked' = [invoked EXCEPT ![p] = Append(@, migration[p])]
    /\ \/ /\ upgradeFailed' = [upgradeFailed EXCEPT ![p] = migration[p]]
          /\ UpgradeFailed(p)
       \/ /\ tx' = [tx EXCEPT ![p] = TxUpgrade(@, migration[p])]
          /\ pc' = [pc EXCEPT ![p] = "setVersion"]
          /\ UNCHANGED <<db, openTx, err, log, failStage, upgradeFailed>>
    /\ UNCHANGED <<given, migrations, target, viaUpgrade, current, pending, migration,
                   calls, begins, applied>>
    /\ UNCHANGED <<initVars, dirVars, migVars>>

\* m.setVersion(tx, migration.Version()); on error tx.Rollback()
SetVersion(p) ==
    /\ pc[p] = "setVersion"
    /\ \/ /\ Fail(p, ExecError, "setVersion")
          /\ db' = DbRollback(db, tx[p])
          /\ tx' = [tx EXCEPT ![p] = EmptyTx]
          /\ openTx' = [openTx EXCEPT ![p] = @ - 1]
       \/ /\ tx' = [tx EXCEPT ![p] = TxSetVersion(@, migration[p])]
          /\ pc' = [pc EXCEPT ![p] = "commit"]
          /\ UNCHANGED <<db, openTx, err, log, failStage>>
    /\ UNCHANGED <<given, migrations, target, viaUpgrade, current, pending, migration,
                   calls, invoked, begins, applied, upgradeFailed>>
    /\ UNCHANGED <<initVars, dirVars, migVars>>

\* tx.Commit(); on error tx.Rollback(); on success the loop appends to the log
Commit(p) ==
    /\ pc[p] = "commit"
    /\ \/ /\ Fail(p, CommitError, "commit")
          /\ db' = DbRollback(db, tx[p])
          /\ UNCHANGED applied
       \/ /\ db' = DbCommit(db, tx[p])
          /\ applied' = [applied EXCEPT ![p] = Append(@, migration[p])]
          /\ log' = [log EXCEPT ![p] = Append(@, UpgradedMessage(migration[p]))]
          /\ pc' = [pc EXCEPT ![p] = "loop"]
          /\ UNCHANGED <<err, failStage>>
    /\ tx' = [tx EXCEPT ![p] = EmptyTx]
    /\ openTx' = [openTx EXCEPT ![p] = @ - 1]
    /\ UNCHANGED <<given, migrations, target, viaUpgrade, current, pending, migration,
                   calls, invoked, begins, upgradeFailed>>
    /\ UNCHANGED <<initVars, dirVars, migVars>>

\* ------------------------------------------------------------ Migrator.Init
\* `if err == nil { return nil }` after the first CurrentVersion()
AlreadyVersionedNever(readOk) == FALSE

AlreadyVersioned(readOk) == readOk

\* tx.Exec(QueryCreateTable): CREATE TABLE fails on a table that exists
CreateTableIfNotExists(st) == FALSE

CreateTableFails(st) == st.table

\* tx.Exec(QueryCreateTable), tx.Exec(QueryInsertVersion) join the transaction
TxCreateTable(t) == [t EXCEPT !.create = TRUE]

TxInsertVersionAsUpdate(t) == t

TxInsertVersion(t) == [t EXCEPT !.insert = TRUE]

\* tx.Commit() of Init's transaction: table and row appear together; the
\* inserted row holds version 0
StoreCommit(st, t) ==
    [table |-> st.table \/ t.create,
     rows  |-> st.rows + (IF t.insert THEN 1 ELSE 0)]

VersionCommit(d, t) == IF t.insert THEN [d EXCEPT !.version = 0] ELSE d

\* return from Init
InitReturn(p, e) ==
    init' = [init EXCEPT ![p].pc = "idle", ![p].err = e, ![p].returned = TRUE]

\* entry of Init
InitCall(p) ==
    /\ pc[p] = "idle"
    /\ init[p].pc = "idle"
    /\ init[p].calls < MaxInits
    /\ init' = [init EXCEPT ![p] = [NoInit EXCEPT !.pc = "read",
                                                  !.calls = init[p].calls + 1,
                                                  !.wasReady = StoreReady,
                                                  !.version0 = db.version]]
    /\ UNCHANGED <<given, migrations, db, tx, openTx, pc, target, viaUpgrade, current,
                   pending, migration, log, err, calls, invoked, begins, applied,
                   failStage, upgradeFailed, store, initTx, dirVars, migVars>>

\* Init reads the version; a read without error means the database is versioned
InitRead(p) ==
    /\ init[p].pc = "read"
    /\ \E readOk \in {ok \in BOOLEAN : ok => StoreReady} :
          IF AlreadyVersioned(readOk)
          THEN init' = [init EXCEPT ![p].pc = "idle", ![p].readOk = readOk,
                                    ![p].returned = TRUE]
          ELSE init' = [init EXCEPT ![p].pc = "begin", ![p].readOk = readOk]
    /\ UNCHANGED <<given, migrations, db, tx, openTx, pc, target, viaUpgrade, current,
                   pending, migration, log, err, calls, invoked, begins, applied,
                   failStage, upgradeFailed, store, initTx, dirVars, migVars>>

\* tx, err := m.db.Begin()
InitBegin(p) ==
    /\ init[p].pc = "begin"
    /\ \/ /\ init' = [init EXCEPT ![p].pc = "idle", ![p].begins = @ + 1,
                                  ![p].err = BeginError, ![p].returned = TRUE]
          /\ UNCHANGED <<initTx, openTx>>
       \/ /\ init' = [init EXCEPT ![p].pc = "create", ![p].begins = @ + 1]
          /\ initTx' = [initTx EXCEPT ![p] = EmptyInitTx]
          /\ openTx' = [openTx EXCEPT ![p] = @ + 1]
    /\ UNCHANGED <<given, migrations, db, tx, pc, target, viaUpgrade, current,
                   pending, migration, log, err, calls, invoked, begins, applied,
                   failStage, upgradeFailed, store, dirVars, migVars>>

\* tx.Exec(QueryCreateTable); the error return leaves the transaction open
InitCreate(p) ==
    /\ init[p].pc = "create"
    /\ \E execOk \in {ok \in BOOLEAN : ok => ~CreateTableFails(store)} :
          IF execOk
          THEN /\ init' = [init EXCEPT ![p].pc = "insert", ![p].execs = @ + 1]
               /\ initTx' = [initTx EXCEPT ![p] = TxCreateTable(@)]
          ELSE /\ init' = [init EXCEPT ![p].pc = "idle", ![p].execs = @ + 1,
                                       ![p].err = ExecError, ![p].returned = TRUE]
               /\ UNCHANGED initTx
    /\ UNCHANGED <<given, migrations, db, tx, openTx, pc, target, viaUpgrade, current,
                   pending, migration, log, err, calls, invoked, begins, applied,
                   failStage, upgradeFailed, store, dirVars, migVars>>

\* tx.Exec(QueryInsertVersion); the error return leaves the transaction open
InitInsert(p) ==
    /\ init[p].pc = "insert"
    /\ \/ /\ init' = [init EXCEPT ![p].pc = "commit", ![p].execs = @ + 1]
          /\ initTx' = [initTx EXCEPT ![p] = TxInsertVersion(@)]
       \/ /\ init' = [init EXCEPT ![p].pc = "idle", ![p].execs = @ + 1,
                                  ![p].err = ExecError, ![p].returned = TRUE]
          /\ UNCHANGED initTx
    /\ UNCHANGED <<given, migrations, db, tx, openTx, pc, target, viaUpgrade, current,
                   pending, migration, log, err, calls, invoked, begins, applied,
                   failStage, upgradeFailed, store, dirVars, migVars>>

\* tx.Commit()
InitCommit(p) ==
    /\ init[p].pc = "commit"
    /\ \/ /\ store' = StoreCommit(store, initTx[p])
          /\ db' = VersionCommit(db, initTx[p])
          /\ init' = [init EXCEPT ![p].pc = "check"]
       \/ /\ InitReturn(p, CommitError)
          /\ UNCHANGED <<store, db>>
    /\ initTx' = [initTx EXCEPT ![p] = EmptyInitTx]
    /\ openTx' = [openTx EXCEPT ![p] = @ - 1]
    /\ UNCHANGED <<given, migrations, tx, pc, target, viaUpgrade, current,
                   pending, migration, log, err, calls, invoked, begins, applied,
                   failStage, upgradeFailed, dirVars, migVars>>

\* Init reads the version again and expects 0
InitCheck(p) ==
    /\ init[p].pc = "check"
    /\ \/ InitReturn(p, ReadError)
       \/ StoreReady /\
          IF CurrentVersion # 0
          THEN InitReturn(p, InitVersionMismatch)
          ELSE InitReturn(p, NoError)
    /\ UNCHANGED <<given, migrations, db, tx, openTx, pc, target, viaUpgrade, current,
                   pending, migration, log, err, calls, invoked, begins, applied,
                   failStage, upgradeFailed, store, initTx, dirVars, migVars>>

\* -------------------------------------------------------- MigrationsFromDir
\* the directories the finder is run on: at most MaxFiles of these entries
DirEntries ==
    { File(<<1>>, "_", "up", <<"s", "q", "l">>),
      File(<<0, 1>>, "_", "up", <<"s", "q", "l">>),
      File(<<0, 0, 1>>, "-", "up", <<"s", "q", "l">>),
      File(<<1>>, "_", "up", <<"S", "Q", "L">>),
      File(<<1>>, "_", "down", <<"s", "q", "l">>),
      File(<<0, 1>>, "_", "down", <<"s", "q", "l">>),
      File(<<2>>, "_", "up", <<"s", "q", "l">>),
      File(<<2>>, "-", "down", <<"s", "q", "l">>),
      File(<<0, 0, 3>>, "_", "up", <<"s", "q", "l">>),
      File(<<0>>, "_", "up", <<"s", "q", "l">>),
      File(<<1>>, "_", "UP", <<"s", "q", "l">>),
      File(<<2>>, "_", "up", <<"t", "x", "t">>),
      [File(<<3>>, "_", "down", <<"s", "q", "l">>) EXCEPT !.isDir = TRUE] }

Directories == {d \in SUBSET DirEntries : Cardinality(d) <= MaxFiles}

\* the orders in which readDir may list a directory
Listings(d) ==
    {l \in [1..Cardinality(d) -> d] : \A i, j \in 1..Cardinality(d) : l[i] = l[j] => i = j}

\* errors of discovery
ReadDirError == FileError("readDir", "", 0, NoName)
ReadFileError == FileError("readFile", "", 0, NoName)
InvalidVersionError(name) == FileError("Version number of file is invalid", "", 0, name)
MixedExtensionsError(version) == FileError("Mixed extensions", "", version, NoName)
MissingMigrationError(direction, version) == FileError("Missing", direction, version, NoName)
DuplicateMigrationError(direction, version) == FileError("Duplicate", direction, version, NoName)

\* nameRegexp: ^(\d+)[-_](up|down)\.([Ss][Qq][Ll])$
NameMatches(f) ==
    /\ Len(f.digits) >= 1
    /\ \A i \in 1..Len(f.digits) : f.digits[i] \in 0..9
    /\ f.sep \in {"-", "_"}
    /\ f.way \in {"up", "down"}
    /\ Len(f.ext) = 3
    /\ f.ext[1] \in {"S", "s"}
    /\ f.ext[2] \in {"Q", "q"}
    /\ f.ext[3] \in {"L", "l"}

\* strconv.ParseInt(match[1], 10, 64)
RECURSIVE ParseInt(_)
ParseInt(digits) ==
    IF digits = <<>> THEN 0
    ELSE ParseInt(SubSeq(digits, 1, Len(digits) - 1)) * 10 + digits[Len(digits)]

\* parseNameInfo: no match gives (nil, nil); a version below 1 is an error
parseNameInfo(f) ==
    IF ~NameMatches(f)
    THEN [matched |-> FALSE, err |-> NoFileError, info |-> NoName]
    ELSE IF ParseInt(f.digits) < 1
    THEN [matched |-> TRUE, err |-> InvalidVersionError(f), info |-> NoName]
    ELSE [matched |-> TRUE, err |-> NoFileError, info |-> f]

\* names[info.version] = append(names[info.version], info)
AppendInfo(byVer, info) ==
    LET version == ParseInt(info.digits)
    IN  [w \in (DOMAIN byVer) \cup {version} |->
            IF w = version
            THEN (IF w \in DOMAIN byVer THEN Append(byVer[w], info) ELSE <<info>>)
            ELSE byVer[w]]

\* the loop of groupByVersion over the listing, from entry i on
RECURSIVE groupByVersion(_, _, _)
groupByVersion(files, i, byVer) ==
    IF i > Len(files) THEN [err |-> NoFileError, names |-> byVer]
    ELSE IF files[i].isDir THEN groupByVersion(files, i + 1, byVer)
    ELSE LET r == parseNameInfo(files[i])
         IN  IF r.err # NoFileError THEN [err |-> r.err, names |-> <<>>]
             ELSE IF ~r.matched THEN groupByVersion(files, i + 1, byVer)
             ELSE groupByVersion(files, i + 1, AppendInfo(byVer, r.info))

\* string(bytes) of a file that was read; "" is the empty sequence
Contents(info) == <<info>>

NoMigration == [version |-> 0, up |-> <<>>, down |-> <<>>]

\* `if !seen["up"]` after the loop
MissingUpIgnored(seenUp) == FALSE

MissingUp(seenUp) == ~seenUp

\* the loop of getFileMigration over one group, from info i on; readFile
\* fails on the failAt-th file (0: on none)
RECURSIVE fileLoop(_, _, _, _)
fileLoop(infos, i, failAt, m) ==
    IF i > Len(infos)
    THEN IF MissingUp(m.seenUp)
         THEN [kind |-> "err", m |-> NoMigration,
               err |-> MissingMigrationError("up", m.version)]
         ELSE [kind |-> "ok", err |-> NoFileError,
               m |-> [version |-> m.version, up |-> m.up, down |-> m.down]]
    ELSE LET info == infos[i]
         IN  IF failAt = i
             THEN [kind |-> "err", m |-> NoMigration, err |-> ReadFileError]
             ELSE IF m.ext # <<>> /\ m.ext # info.ext
             THEN [kind |-> "err", m |-> NoMigration,
                   err |-> MixedExtensionsError(ParseInt(info.digits))]
             ELSE IF info.way = "up"
             THEN IF m.seenUp
                  THEN [kind |-> "err", m |-> NoMigration,
                        err |-> DuplicateMigrationError("up", ParseInt(info.digits))]
                  ELSE fileLoop(infos, i + 1, failAt,
                                [m EXCEPT !.ext = info.ext, !.up = Contents(info),
                                          !.seenUp = TRUE])
             ELSE IF m.seenDown
                  THEN [kind |-> "err", m |-> NoMigration,
                        err |-> DuplicateMigrationError("down", ParseInt(info.digits))]
                  ELSE fileLoop(infos, i + 1, failAt,
                                [m EXCEPT !.ext = info.ext, !.down = Contents(info),
                                          !.seenDown = TRUE])

\* getFileMigration: log.Fatalf ends the process for a group of 0 or of more
\* than 2 infos
getFileMigration(infos, failAt) ==
    IF Len(infos) = 0 \/ Len(infos) > 2
    THEN [kind |-> "fatal", m |-> NoMigration, err |-> NoFileError]
    ELSE fileLoop(infos, 1, failAt,
                  [version |-> ParseInt(infos[1].digits), up |-> <<>>, down |-> <<>>,
                   ext |-> <<>>, seenUp |-> FALSE, seenDown |-> FALSE])

\* sort.Sort(byVersion(ms))
RECURSIVE InsertMigration(_, _)
InsertMigration(s, m) ==
    IF s = <<>> THEN <<m>>
    ELSE IF m.version < Head(s).version THEN <<m>> \o s
    ELSE <<Head(s)>> \o InsertMigration(Tail(s), m)

RECURSIVE SortMigrations(_)
SortMigrations(s) ==
    IF s = <<>> THEN <<>> ELSE InsertMigration(SortMigrations(Tail(s)), Head(s))

\* what getMigrations returns of the slice it built
Unsorted(s) == s

Sorted(s) == SortMigrations(s)

\* return nil, err
DirFailPartial(e) ==
    /\ dret' = [done |-> TRUE, ok |-> FALSE, ms |-> dms, err |-> e]
    /\ dpc' = "done"

DirFail(e) ==
    /\ dret' = [done |-> TRUE, ok |-> FALSE, ms |-> <<>>, err |-> e]
    /\ dpc' = "done"

\* the groups the range loop has not visited
Remaining == (DOMAIN names) \ {dms[i].version : i \in 1..Len(dms)}

\* nameInfos, err := mf.groupByVersion(dir)
ReadAndGroup ==
    /\ dpc = "group"
    /\ \/ DirFail(ReadDirError) /\ UNCHANGED names
       \/ \E files \in Listings(fs) :
             LET r == groupByVersion(files, 1, <<>>)
             IN  IF r.err # NoFileError
                 THEN DirFail(r.err) /\ UNCHANGED names
                 ELSE names' = r.names /\ dpc' = "range" /\ UNCHANGED dret
    /\ UNCHANGED <<fs, dms>>
    /\ UNCHANGED <<given, migrations, db, tx, openTx, pc, target, viaUpgrade, current,
                   pending, migration, log, err, calls, invoked, begins, applied,
                   failStage, upgradeFailed, initVars, migVars>>

\* one iteration of `for _, names := range nameInfos`: the map hands out
\* the groups in any order
BuildMigration ==
    /\ dpc = "range"
    /\ \E version \in Remaining, failAt \in 0..2 :
          LET r == getFileMigration(names[version], failAt)
          IN  /\ failAt <= Len(names[version])
              /\ IF r.kind = "fatal"
                 THEN dpc' = "exit" /\ UNCHANGED <<dms, dret>>
                 ELSE IF r.kind = "err"
                 THEN DirFail(r.err) /\ UNCHANGED dms
                 ELSE dms' = Append(dms, r.m) /\ UNCHANGED <<dpc, dret>>
    /\ UNCHANGED <<fs, names>>
    /\ UNCHANGED <<given, migrations, db, tx, openTx, pc, target, viaUpgrade, current,
                   pending, migration, log, err, calls, invoked, begins, applied,
                   failStage, upgradeFailed, initVars, migVars>>

\* sort.Sort(byVersion(ms)); return ms, nil
SortAndReturn ==
    /\ dpc = "range"
    /\ Remaining = {}
    /\ dret' = [done |-> TRUE, ok |-> TRUE, ms |-> Sorted(dms), err |-> NoFileError]
    /\ dpc' = "done"
    /\ UNCHANGED <<fs, names, dms>>
    /\ UNCHANGED <<given, migrations, db, tx, openTx, pc, target, viaUpgrade, current,
                   pending, migration, log, err, calls, invoked, begins, applied,
                   failStage, upgradeFailed, initVars, migVars>>

\* ------------------------------------------- stringMigration, functionMigration
\* A stringMigration holds two SQL strings ("" when there is none); a
\* functionMigration holds two func values ("nil" when there is none, and any
\* other value is a function that executes the statement of that name).
NoDowngradeError == "No downgrade defined"
StringBodies == {"", "sql"}
FuncValues == {"nil", "func"}
MigrationValues ==
    [variant : {"string"}, version : Versions, up : StringBodies, down : StringBodies]
    \cup [variant : {"function"}, version : Versions, up : FuncValues, down : FuncValues]

\* the outcome of running one step of a migration on the transaction:
\* tx.Exec(body) for the string variant, the call of the func value for the
\* function variant; calling a nil func value panics
RunStep(variant, body, t, execErr) ==
    IF variant = "function" /\ body = "nil"
    THEN [panicked |-> TRUE, err |-> NoError, tx |-> t]
    ELSE [panicked |-> FALSE, err |-> execErr, tx |-> Append(t, body)]

\* stringMigration.Downgrade tests `m.down == ""`; functionMigration.Downgrade
\* tests nothing
DowngradeUndefined(m) == m.variant = "string" /\ m.down = ""

\* the call's record
Called(op, r) ==
    /\ mret' = [op |-> op, calls |-> mret.calls + 1, err |-> r.err,
                panicked |-> r.panicked, before |-> mtx]
    /\ mtx' = r.tx

\* m.Upgrade(tx)
MigrationUpgrade ==
    /\ mret.calls < MaxOps
    /\ ~mret.panicked
    /\ \E execErr \in {NoError, ExecError} :
          Called("Upgrade", RunStep(mig.variant, mig.up, mtx, execErr))
    /\ UNCHANGED <<mig, given, migrations, db, tx, openTx, pc, target, viaUpgrade,
                   current, pending, migration, log, err, calls, invoked, begins,
                   applied, failStage, upgradeFailed, initVars, dirVars>>

\* m.Downgrade(tx)
MigrationDowngrade ==
    /\ mret.calls < MaxOps
    /\ ~mret.panicked
    /\ IF DowngradeUndefined(mig)
       THEN Called("Downgrade", [panicked |-> FALSE, err |-> NoDowngradeError, tx |-> mtx])
       ELSE \E execErr \in {NoError, ExecError} :
               Called("Downgrade", RunStep(mig.variant, mig.down, mtx, execErr))
    /\ UNCHANGED <<mig, given, migrations, db, tx, openTx, pc, target, viaUpgrade,
                   current, pending, migration, log, err, calls, invoked, begins,
                   applied, failStage, upgradeFailed, initVars, dirVars>>

\* --------------------------------------------------------- specifications
\* one migrator works on the database
Next ==
    \/ Upgrade("m1")
    \/ UpgradeToVersion("m1")
    \/ ReadVersion("m1")
    \/ Begin("m1")
    \/ Verify("m1")
    \/ RunUpgrade("m1")
    \/ SetVersion("m1")
    \/ Commit("m1")

Spec == Init /\ [][Next]_vars

\* one migrator's Init calls and upgrade calls, one call at a time
NextInit ==
    \/ init["m1"].pc = "idle" /\ calls["m1"] < InitUpgrades /\ Upgrade("m1")
    \/ init["m1"].pc = "idle" /\ calls["m1"] < InitUpgrades /\ UpgradeToVersion("m1")
    \/ ReadVersion("m1")
    \/ Begin("m1")
    \/ Verify("m1")
    \/ RunUpgrade("m1")
    \/ SetVersion("m1")
    \/ Commit("m1")
    \/ InitCall("m1")
    \/ InitRead("m1")
    \/ InitBegin("m1")
    \/ InitCreate("m1")
    \/ InitInsert("m1")
    \/ InitCommit("m1")
    \/ InitCheck("m1")

SpecInit == InitStore /\ [][NextInit]_vars

\* two migrators race on the same database
NextRace ==
    \/ \E p \in Migrators : calls[p] < RaceCalls /\ Upgrade(p)
    \/ \E p \in Migrators : calls[p] < RaceCalls /\ UpgradeToVersion(p)
    \/ \E p \in Migrators : ReadVersion(p)
    \/ \E p \in Migrators : Begin(p)
    \/ \E p \in Migrators : Verify(p)
    \/ \E p \in Migrators : RunUpgrade(p)
    \/ \E p \in Migrators : SetVersion(p)
    \/ \E p \in Migrators : Commit(p)

SpecRace == Init /\ [][NextRace]_vars

\* MigrationsFromDir runs on a directory; no migrator is at work
InitDir ==
    /\ fs \in Directories
    /\ mig = NoMigrationValue
    /\ mtx = <<>>
    /\ mret = NoCall
    /\ dpc = "group"
    /\ names = <<>>
    /\ dms = <<>>
    /\ dret = NoReturn
    /\ store = FreshStore
    /\ init = [p \in Migrators |-> NoInit]
    /\ initTx = [p \in Migrators |-> EmptyInitTx]
    /\ given = <<>>
    /\ migrations = [p \in Migrators |-> <<>>]
    /\ db = [version |-> 0,
             effects |-> [v \in Versions |-> 0],
             writes  |-> [v \in Versions |-> 0]]
    /\ tx = [p \in Migrators |-> EmptyTx]
    /\ openTx = [p \in Migrators |-> 0]
    /\ pc = [p \in Migrators |-> "idle"]
    /\ target = [p \in Migrators |-> 0]
    /\ viaUpgrade = [p \in Migrators |-> FALSE]
    /\ current = [p \in Migrators |-> 0]
    /\ pending = [p \in Migrators |-> <<>>]
    /\ migration = [p \in Migrators |-> 0]
    /\ log = [p \in Migrators |-> <<>>]
    /\ err = [p \in Migrators |-> NoError]
    /\ calls = [p \in Migrators |-> 0]
    /\ invoked = [p \in Migrators |-> <<>>]
    /\ begins = [p \in Migrators |-> 0]
    /\ applied = [p \in Migrators |-> <<>>]
    /\ failStage = [p \in Migrators |-> ""]
    /\ upgradeFailed = [p \in Migrators |-> 0]

\* a migration value is handed a transaction; no migrator is at work
InitMigration ==
    /\ mig \in MigrationValues
    /\ mtx = <<>>
    /\ mret = NoCall
    /\ fs = {}
    /\ dpc = "off"
    /\ names = <<>>
    /\ dms = <<>>
    /\ dret = NoReturn
    /\ store = FreshStore
    /\ init = [p \in Migrators |-> NoInit]
    /\ initTx = [p \in Migrators |-> EmptyInitTx]
    /\ given = <<>>
    /\ migrations = [p \in Migrators |-> <<>>]
    /\ db = [version |-> 0,
             effects |-> [v \in Versions |-> 0],
             writes  |-> [v \in Versions |-> 0]]
    /\ tx = [p \in Migrators |-> EmptyTx]
    /\ openTx = [p \in Migrators |-> 0]
    /\ pc = [p \in Migrators |-> "idle"]
    /\ target = [p \in Migrators |-> 0]
    /\ viaUpgrade = [p \in Migrators |-> FALSE]
    /\ current = [p \in Migrators |-> 0]
    /\ pending = [p \in Migrators |-> <<>>]
    /\ migration = [p \in Migrators |-> 0]
    /\ log = [p \in Migrators |-> <<>>]
    /\ err = [p \in Migrators |-> NoError]
    /\ calls = [p \in Migrators |-> 0]
    /\ invoked = [p \in Migrators |-> <<>>]
    /\ begins = [p \in Migrators |-> 0]
    /\ applied = [p \in Migrators |-> <<>>]
    /\ failStage = [p \in Migrators |-> ""]
    /\ upgradeFailed = [p \in Migrators |-> 0]

NextMigration ==
    \/ MigrationUpgrade
    \/ MigrationDowngrade

SpecMigration == InitMigration /\ [][NextMigration]_vars

NextDir ==
    \/ ReadAndGroup
    \/ BuildMigration
    \/ SortAndReturn

SpecDir == InitDir /\ [][NextDir]_vars

\* ------------------------------------------------------------ properties
Single == "m1"

Returned(p) == pc[p] = "idle" /\ calls[p] > 0
Succeeded(p) == Returned(p) /\ err[p] = NoError
Last(s) == s[Len(s)]
UpTo(a, b) == [i \in 1..(b - a + 1) |-> a + i - 1]
\* the owned versions are exactly 1..n, each once
ExactlyOneToN(ms) == Range(ms) = 1..Len(ms)
\* the owned versions are a run lo..hi, each once
Contiguous(ms) ==
    /\ ms # <<>>
    /\ \E lo \in Versions : Range(ms) = lo..(lo + Len(ms) - 1)
Highest(ms) ==
    IF ms = <<>> THEN 0 ELSE CHOOSE v \in Range(ms) : \A w \in Range(ms) : w <= v

\* C1 as stated: for an owned set with versions exactly 1..n, every successful
\* Upgrade/UpgradeToVersion call that started from stored version 0 invoked
\* the upgrade actions 1, 2, ..., n, each once, in this order.
C1_EverySuccessfulCallVisitsAll ==
    (Succeeded(Single) /\ current[Single] = 0 /\ ExactlyOneToN(given))
        => invoked[Single] = UpTo(1, Len(given))

\* C1 amended: the same, for a successful Upgrade() call and for a successful
\* UpgradeToVersion(target) call whose target is not 0.
C1_SuccessfulNonZeroTargetVisitsAll ==
    (/\ Succeeded(Single)
     /\ current[Single] = 0
     /\ ExactlyOneToN(given)
     /\ (viaUpgrade[Single] \/ target[Single] # 0))
        => invoked[Single] = UpTo(1, Len(given))

C1_Witness ==
    /\ Succeeded(Single)
    /\ current[Single] = 0
    /\ given = <<3, 1, 2>>
    /\ ~viaUpgrade[Single]
    /\ target[Single] = 3
    /\ invoked[Single] = <<1, 2, 3>>

\* C2 as stated: when two migrators race to apply the same migration v, at
\* most one of them commits it: the effects of the upgrade action of v are
\* never committed twice.
C2_NeverCommittedTwice ==
    \A v \in Versions : db.effects[v] <= 1

\* C3 as stated: whenever UpgradeToVersion(target) returns success, the
\* stored version equals target.
C3_SuccessReachesTarget ==
    (Succeeded(Single) /\ ~viaUpgrade[Single])
        => db.version = target[Single]

\* C4: with a single migrator, the committed upgrade effects are exactly
\* those of the versions <= the stored version, each once, and each of these
\* versions was written to the version row exactly once.
C4_EffectsMatchVersion ==
    \A v \in Versions :
        /\ db.effects[v] = (IF v <= db.version THEN 1 ELSE 0)
        /\ db.writes[v] = db.effects[v]

C4_Witness ==
    /\ Returned(Single)
    /\ current[Single] = 0
    /\ applied[Single] = <<1>>
    /\ failStage[Single] = "setVersion"
    /\ invoked[Single] = <<1, 2>>
    /\ db.version = 1

\* C5: once the upgrade action of a migration has failed, the call has
\* returned that action's error and that migration is the last one whose
\* upgrade action was invoked in the call.
C5_FailedActionHalts ==
    \A p \in {Single} :
        upgradeFailed[p] # 0 =>
            /\ pc[p] = "idle"
            /\ err[p] = UpgradeError
            /\ log[p] = <<>>
            /\ Last(invoked[p]) = upgradeFailed[p]
            /\ \A i \in 1..(Len(invoked[p]) - 1) : invoked[p][i] < upgradeFailed[p]

C5_Witness ==
    /\ upgradeFailed[Single] = 2
    /\ invoked[Single] = <<1, 2>>
    /\ pending[Single] = <<3>>
    /\ Returned(Single)

\* C6: after a call failed in the action, the version write or the commit of
\* migration k, the stored version is the version of the last migration the
\* call committed (or the version the call started from), and every
\* migration the call committed is still committed.
C6_FailureKeepsLastCommitted ==
    (Returned(Single) /\ failStage[Single] \in {"upgrade", "setVersion", "commit"})
        => /\ db.version = (IF applied[Single] = <<>> THEN current[Single]
                            ELSE Last(applied[Single]))
           /\ \A v \in Range(applied[Single]) : db.effects[v] >= 1

C6_Witness ==
    /\ Returned(Single)
    /\ failStage[Single] = "commit"
    /\ current[Single] = 1
    /\ applied[Single] = <<2>>
    /\ migration[Single] = 3
    /\ db.version = 2

\* C7: the step of apply that re-reads the stored version compares the
\* version stored at that moment with migration.Version()-1; when they
\* differ apply fails with MigrationVersionChanged, invokes no upgrade action
\* and leaves the database as it is; when they agree apply goes on.
C7_VerifyStep ==
    [][\A p \in {Single} :
        (pc[p] = "verify" /\ pc'[p] # "verify" /\ err'[p] # ReadError) =>
            IF db.version # migration[p] - 1
            THEN /\ err'[p] = MigrationVersionChanged
                 /\ pc'[p] = "idle"
                 /\ invoked'[p] = invoked[p]
                 /\ db' = db
            ELSE /\ pc'[p] = "upgrade"
                 /\ err'[p] = NoError]_vars

C7_Witness ==
    /\ Returned(Single)
    /\ err[Single] = MigrationVersionChanged
    /\ applied[Single] = <<1>>
    /\ migration[Single] = 3
    /\ invoked[Single] = <<1>>
    /\ db.version = 1

\* C8: when the call read a stored version k > 0 that has a record in the
\* owned set, every upgrade action it invokes belongs to a version > k.
C8_OnlyLaterMigrations ==
    (current[Single] > 0 /\ current[Single] \in Range(migrations[Single]))
        => \A i \in 1..Len(invoked[Single]) : invoked[Single][i] > current[Single]

C8_Witness ==
    /\ Succeeded(Single)
    /\ current[Single] = 1
    /\ migrations[Single] = <<1, 2, 3>>
    /\ invoked[Single] = <<2, 3>>

\* C9: Upgrade() passes the highest version of the owned set as target, and
\* a successful Upgrade() that read stored version k with k's record in a
\* contiguous set committed exactly k+1, ..., highest, in this order.
C9_UpgradeTargetsHighest ==
    viaUpgrade[Single] =>
        /\ target[Single] = Highest(given)
        /\ (/\ Succeeded(Single)
            /\ Contiguous(given)
            /\ current[Single] \in Range(given))
                => /\ applied[Single] = UpTo(current[Single] + 1, Highest(given))
                   /\ db.version = Highest(given)

C9_Witness ==
    /\ viaUpgrade[Single]
    /\ Succeeded(Single)
    /\ given = <<3, 2>>
    /\ current[Single] = 2
    /\ applied[Single] = <<3>>

\* C10: a call that read a stored version equal to its target returned
\* success with the single "already at current version" log entry, began no
\* transaction, invoked no migration and left the stored version unchanged;
\* this holds for a repeated call as well.
C10_AlreadyCurrentIsNoOp ==
    (/\ Returned(Single)
     /\ failStage[Single] # "read"
     /\ current[Single] = target[Single])
        => /\ err[Single] = NoError
           /\ log[Single] = <<AlreadyCurrentMessage>>
           /\ begins[Single] = 0
           /\ invoked[Single] = <<>>
           /\ db.version = target[Single]

C10_Witness ==
    /\ Returned(Single)
    /\ calls[Single] = 2
    /\ ~viaUpgrade[Single]
    /\ current[Single] = 2
    /\ target[Single] = 2
    /\ log[Single] = <<AlreadyCurrentMessage>>
    /\ begins[Single] = 0

\* C11: a call that read a stored version above its target failed with
\* DowngradesUnsupported, began no transaction, invoked no migration,
\* returned no log and left the stored version as it read it.
C11_DowngradeRejected ==
    (/\ Returned(Single)
     /\ failStage[Single] # "read"
     /\ target[Single] < current[Single])
        => /\ err[Single] = DowngradesUnsupported
           /\ begins[Single] = 0
           /\ invoked[Single] = <<>>
           /\ applied[Single] = <<>>
           /\ log[Single] = <<>>
           /\ db.version = current[Single]

C11_Witness ==
    /\ Returned(Single)
    /\ ~viaUpgrade[Single]
    /\ current[Single] = 3
    /\ target[Single] = 1
    /\ given = <<1, 2, 3>>
    /\ err[Single] = DowngradesUnsupported
    /\ begins[Single] = 0

\* C12: a call that read a stored version k > 0 below its target, with no
\* record of version k in the owned set, failed with MissingCurrentMigration
\* before any transaction was begun and without invoking any migration.
C12_MissingCurrentRejected ==
    (/\ Returned(Single)
     /\ failStage[Single] # "read"
     /\ current[Single] > 0
     /\ target[Single] > current[Single]
     /\ current[Single] \notin Range(given))
        => /\ err[Single] = MissingCurrentMigration
           /\ begins[Single] = 0
           /\ invoked[Single] = <<>>
           /\ log[Single] = <<>>
           /\ db.version = current[Single]

C12_Witness ==
    /\ Returned(Single)
    /\ current[Single] = 2
    /\ target[Single] = 3
    /\ given = <<1, 3>>
    /\ err[Single] = MissingCurrentMigration
    /\ begins[Single] = 0

\* C14: when db.Begin() failed for a migration, the call has returned the
\* begin error and no log; every upgrade action it invoked belongs to a
\* migration it committed before, so apply read no version, invoked no
\* action and wrote no version for the migration whose Begin failed.
C14_BeginFailureStops ==
    failStage[Single] = "begin" =>
        /\ pc[Single] = "idle"
        /\ err[Single] = BeginError
        /\ log[Single] = <<>>
        /\ invoked[Single] = applied[Single]
        /\ Len(applied[Single]) = begins[Single] - 1
        /\ tx[Single] = EmptyTx
        /\ db.version = (IF applied[Single] = <<>> THEN current[Single]
                         ELSE Last(applied[Single]))

C14_Witness ==
    /\ Returned(Single)
    /\ failStage[Single] = "begin"
    /\ given = <<1, 2, 3>>
    /\ current[Single] = 1
    /\ target[Single] = 2
    /\ begins[Single] = 1
    /\ invoked[Single] = <<>>
    /\ db.version = 1

\* C15: when the first read of the stored version failed, the call has
\* returned that read's error, whatever its target, with no log, no
\* transaction begun and no migration invoked.
C15_ReadFailureReturned ==
    failStage[Single] = "read" =>
        /\ pc[Single] = "idle"
        /\ err[Single] = ReadError
        /\ log[Single] = <<>>
        /\ begins[Single] = 0
        /\ invoked[Single] = <<>>
        /\ applied[Single] = <<>>

C15_Witness ==
    /\ Returned(Single)
    /\ failStage[Single] = "read"
    /\ ~viaUpgrade[Single]
    /\ target[Single] = MaxVer + 1
    /\ given = <<1, 2>>
    /\ err[Single] = ReadError

\* C13: across Init, Upgrade and UpgradeToVersion calls of one migrator,
\* successful or failing, no step lowers the stored version, and a store that
\* holds a version row keeps holding one.
C13_VersionNeverDecreases ==
    [][/\ db'.version >= db.version
       /\ StoreReady => StoreReady']_vars

C13_Witness ==
    /\ init[Single].returned
    /\ init[Single].wasReady
    /\ init[Single].err = ExecError
    /\ Returned(Single)
    /\ err[Single] # NoError
    /\ applied[Single] # <<>>
    /\ db.version > init[Single].version0

\* C16: the table and its row appear together (one transaction), and the step
\* on which an Init that started on a fresh store returns success leaves a
\* store whose single row reads version 0, after one Begin and two statements.
C16_FreshInitStoresZero ==
    [][/\ store'.table <=> store'.rows = 1
       /\ (/\ init[Single].pc # "idle"
           /\ ~init[Single].wasReady
           /\ init'[Single].returned
           /\ init'[Single].err = NoError)
          => /\ StoreReady'
             /\ CurrentVersion' = 0
             /\ store' = [table |-> TRUE, rows |-> 1]
             /\ init'[Single].begins = 1
             /\ init'[Single].execs = 2]_vars

C16_Witness ==
    /\ init[Single].returned
    /\ ~init[Single].wasReady
    /\ init[Single].err = NoError
    /\ init[Single].pc = "idle"
    /\ store = [table |-> TRUE, rows |-> 1]
    /\ db.version = 0

Artifacts(d) == {f \in d : ~f.isDir /\ NameMatches(f)}
VersionsIn(d) == {ParseInt(f.digits) : f \in Artifacts(d)}
GroupOf(d, v) == {f \in Artifacts(d) : ParseInt(f.digits) = v}
WayIn(d, v, way) == {f \in GroupOf(d, v) : f.way = way}
AllValid(d) == \A f \in Artifacts(d) : ParseInt(f.digits) >= 1
OneSpelling(d, v) == \A f, g \in GroupOf(d, v) : f.ext = g.ext
\* one up file, at most one down file, one spelling of the extension
WellFormed(d, v) ==
    /\ Cardinality(WayIn(d, v, "up")) = 1
    /\ Cardinality(WayIn(d, v, "down")) <= 1
    /\ OneSpelling(d, v)
\* discovery returned and no read of the directory or of a file failed
ReturnedNoIOError == dret.done /\ dret.err \notin {ReadDirError, ReadFileError}
OnlyUps(d) ==
    /\ AllValid(d)
    /\ \A v \in VersionsIn(d) :
          Cardinality(GroupOf(d, v)) = 1 /\ WayIn(d, v, "down") = {}

\* C18: on a directory whose artifacts are one up file per version and no
\* down file, discovery does not end the process and, unless a read fails,
\* returns without error one migration per version, in ascending version
\* order, each holding its up file's contents and an empty down body, however
\* the directory is listed and the groups are visited.
C18_UpsOnlySortedNoDown ==
    OnlyUps(fs) =>
        /\ dpc # "exit"
        /\ ReturnedNoIOError =>
              /\ dret.ok
              /\ dret.err = NoFileError
              /\ Len(dret.ms) = Cardinality(VersionsIn(fs))
              /\ \A i \in 1..Len(dret.ms) :
                    /\ dret.ms[i].version \in VersionsIn(fs)
                    /\ dret.ms[i].down = <<>>
                    /\ \E f \in GroupOf(fs, dret.ms[i].version) : dret.ms[i].up = Contents(f)
              /\ \A i, j \in 1..Len(dret.ms) :
                    i < j => dret.ms[i].version < dret.ms[j].version

C18_Witness ==
    /\ OnlyUps(fs)
    /\ Cardinality(VersionsIn(fs)) = 3
    /\ dret.done
    /\ dret.ok
    /\ Len(dret.ms) = 3
    /\ dms # dret.ms

\* the directions a version group holds twice or more
SameWayTwice(d) ==
    {wv \in {"up", "down"} \X VersionsIn(d) : Cardinality(WayIn(d, wv[2], wv[1])) >= 2}

\* C19: on a directory whose artifacts all belong to one version group, with
\* a valid version and one spelling of the extension, in which a direction
\* occurs twice or more (also in a group of more than two artifacts),
\* discovery returns, unless a read fails, the duplicate-migration error
\* naming such a direction and the version, and no migrations.
C19_DuplicateReported ==
    (/\ AllValid(fs)
     /\ Cardinality(VersionsIn(fs)) = 1
     /\ \A v \in VersionsIn(fs) : OneSpelling(fs, v)
     /\ SameWayTwice(fs) # {})
    => /\ dpc # "exit"
       /\ ReturnedNoIOError =>
             /\ ~dret.ok
             /\ dret.ms = <<>>
             /\ \E wv \in SameWayTwice(fs) :
                   dret.err = DuplicateMigrationError(wv[1], wv[2])

\* the version groups with a down artifact and no up artifact, and those
\* that are a single down artifact
DownWithoutUp(d) ==
    {v \in VersionsIn(d) : WayIn(d, v, "down") # {} /\ WayIn(d, v, "up") = {}}
SingleDown(d) ==
    {v \in DownWithoutUp(d) : Cardinality(GroupOf(d, v)) = 1}

\* C20 as stated: on a directory with valid versions whose other groups are
\* well formed, a group with a down artifact and no up artifact makes
\* discovery return, unless a read fails, the missing-migration error naming
\* such a version, and no migrations.
C20_DownWithoutUpIsMissing ==
    (/\ AllValid(fs)
     /\ DownWithoutUp(fs) # {}
     /\ \A v \in VersionsIn(fs) \ DownWithoutUp(fs) : WellFormed(fs, v))
    => /\ dpc # "exit"
       /\ ReturnedNoIOError =>
             /\ ~dret.ok
             /\ dret.ms = <<>>
             /\ \E v \in DownWithoutUp(fs) : dret.err = MissingMigrationError("up", v)

\* C20 amended: the same for a group that is a single down artifact.
C20_SingleDownIsMissing ==
    (/\ AllValid(fs)
     /\ SingleDown(fs) # {}
     /\ \A v \in VersionsIn(fs) \ SingleDown(fs) : WellFormed(fs, v))
    => /\ dpc # "exit"
       /\ ReturnedNoIOError =>
             /\ ~dret.ok
             /\ dret.ms = <<>>
             /\ \E v \in SingleDown(fs) : dret.err = MissingMigrationError("up", v)

C20_Witness ==
    /\ SingleDown(fs) # {}
    /\ \E v \in VersionsIn(fs) : WellFormed(fs, v) /\ Cardinality(GroupOf(fs, v)) = 2
    /\ dms # <<>>
    /\ dret.done
    /\ dret.ms = <<>>
    /\ \E v \in SingleDown(fs) : dret.err = MissingMigrationError("up", v)

\* what a caller can tell of an outcome of discovery: success or the error's
\* kind, direction and version, and per migration its version and whether it
\* has a down body
Outcome(ok, ms, e) ==
    [ok |-> ok, kind |-> e.kind, way |-> e.way, version |-> e.version,
     digits |-> e.name.digits,
     ms |-> {[version |-> ms[i].version, hasDown |-> ms[i].down # <<>>] : i \in 1..Len(ms)}]
ExitOutcome == [ok |-> FALSE, kind |-> "exit", way |-> "", version |-> 0,
                digits |-> <<>>, ms |-> {}]
SetOutcome(set) == [ok |-> TRUE, kind |-> NoFileError.kind, way |-> "", version |-> 0,
                    digits |-> <<>>,
                    ms |-> {[version |-> m.version, hasDown |-> m.down # <<>>] : m \in set}]

\* the outcomes discovery can have on directory d when every read succeeds,
\* over all listings and all orders of visiting the groups
OutcomesOf(d) ==
    UNION { LET r == groupByVersion(files, 1, <<>>)
                built == [v \in DOMAIN r.names |-> getFileMigration(r.names[v], 0)]
                bad == {v \in DOMAIN built : built[v].kind # "ok"}
            IN  IF r.err # NoFileError THEN {Outcome(FALSE, <<>>, r.err)}
                ELSE IF bad = {} THEN {SetOutcome({built[v].m : v \in DOMAIN built})}
                ELSE {IF built[v].kind = "fatal" THEN ExitOutcome
                      ELSE Outcome(FALSE, <<>>, built[v].err) : v \in bad}
          : files \in Listings(d) }

\* the spellings of the extension, and the directories that differ from d in
\* the spelling of one artifact's extension
Spellings == {<<"s", "q", "l">>, <<"S", "Q", "L">>, <<"S", "q", "l">>}
Respellings(d) ==
    {d2 \in {(d \ {f}) \cup {[f EXCEPT !.ext = e]} : f \in Artifacts(d), e \in Spellings} :
        Cardinality(d2) = Cardinality(d)}

\* C21: whatever discovery does on a directory (ends the process, or returns
\* without a failed read), it can do the same on every directory that differs
\* only in the case spelling of one artifact's extension.
C21_ExtensionCaseIrrelevant ==
    \A d2 \in Respellings(fs) :
        /\ dpc = "exit" => ExitOutcome \in OutcomesOf(d2)
        /\ ReturnedNoIOError => Outcome(dret.ok, dret.ms, dret.err) \in OutcomesOf(d2)

\* ------------------------------------------ properties of migration values
\* the migration declares no reverse step
NoReverseStep(m) ==
    \/ m.variant = "string" /\ m.down = ""
    \/ m.variant = "function" /\ m.down = "nil"

\* C22: a Downgrade call on a migration that declares no reverse step, of
\* either variant, returns the "no downgrade defined" error and executes
\* nothing on the transaction.
C22_NoDowngradeDefined ==
    (mret.op = "Downgrade" /\ NoReverseStep(mig))
    => /\ ~mret.panicked
       /\ mret.err = NoDowngradeError
       /\ mtx = mret.before

\* ------------------------------------------------ properties of apply's order
\* the moves of a call from one position to the next
CallMoves ==
    {<<"idle", "read">>, <<"read", "idle">>, <<"read", "loop">>, <<"loop", "idle">>,
     <<"loop", "verify">>, <<"verify", "upgrade">>, <<"verify", "idle">>,
     <<"upgrade", "setVersion">>, <<"upgrade", "idle">>,
     <<"setVersion", "commit">>, <<"setVersion", "idle">>,
     <<"commit", "loop">>, <<"commit", "idle">>}

\* C23: for each migration the operations on the database come in the order
\* Begin, read of the stored version, upgrade action, write of the version
\* migration.Version(), Commit: the read sees a transaction in which nothing
\* was executed, the action runs before the version is written, the version
\* written is the migration's, the commit publishes both; a Begin happens
\* only when every migration begun earlier in the call is committed, and a
\* successful call has committed every migration it began.
C23_ApplyOrder ==
    [][/\ pc'[Single] # pc[Single] => <<pc[Single], pc'[Single]>> \in CallMoves
       /\ begins'[Single] = begins[Single] + 1
             => /\ pc[Single] = "loop"
                /\ Len(applied[Single]) = begins[Single]
                /\ pc'[Single] = "verify" => tx'[Single] = EmptyTx
       /\ (pc[Single] = "verify" /\ pc'[Single] = "upgrade")
             => tx[Single] = EmptyTx /\ invoked'[Single] = invoked[Single]
       /\ invoked'[Single] # invoked[Single] /\ invoked'[Single] # <<>>
             => /\ pc[Single] = "upgrade"
                /\ tx[Single] = EmptyTx
                /\ invoked'[Single] = Append(invoked[Single], migration[Single])
       /\ (pc[Single] = "upgrade" /\ pc'[Single] = "setVersion")
             => /\ tx'[Single].ups = {migration[Single]}
                /\ ~tx'[Single].wrote
       /\ (pc[Single] = "setVersion" /\ pc'[Single] = "commit")
             => /\ tx'[Single].ups = {migration[Single]}
                /\ tx'[Single].wrote
                /\ tx'[Single].ver = migration[Single]
       /\ db' # db
             => /\ pc[Single] = "commit"
                /\ pc'[Single] = "loop"
                /\ db'.version = migration[Single]
                /\ applied'[Single] = Append(applied[Single], migration[Single])
                /\ Len(applied'[Single]) = begins[Single]
       /\ Succeeded(Single)'
             => /\ Len(applied'[Single]) = begins'[Single]
                /\ invoked'[Single] = applied'[Single]]_vars

C23_Witness ==
    /\ Succeeded(Single)
    /\ begins[Single] = 2
    /\ Len(applied[Single]) = 2
    /\ db.version = Last(applied[Single])

\* C24: when a call has returned, every transaction apply began in it has
\* been committed or rolled back: the migrator has no transaction open.
C24_NoTransactionLeftOpen ==
    pc[Single] = "idle" => openTx[Single] = 0

\* ------------------------------------------------------ properties of gaps
\* the migrations after version cur in the sorted list
AfterCurrent(sorted, cur) ==
    LET at == {i \in 1..Len(sorted) : sorted[i] = cur}
    IN  IF cur > 0 /\ at # {}
        THEN SubSeq(sorted, (CHOOSE i \in at : \A j \in at : i <= j) + 1, Len(sorted))
        ELSE sorted
\* the first place in that run whose version is not the one due (0: none)
GapAt(after, cur) ==
    LET off == {i \in 1..Len(after) : after[i] # cur + i}
    IN  IF off = {} THEN 0 ELSE CHOOSE i \in off : \A j \in off : i <= j
\* the call got as far as the range loop
InLoop(p) ==
    /\ calls[p] > 0
    /\ pc[p] \notin {"idle", "read"}
       \/ (pc[p] = "idle" /\ failStage[p] \notin {"read", "check", "search"}
           /\ log[p] # <<AlreadyCurrentMessage>>)
\* the state of a call whose run of migrations has a gap: nothing at or
\* beyond the gap is committed, and once it has returned it has failed, with
\* MigrationVersionChanged at the migration at the gap unless a database
\* operation failed before it
GapStops(p) ==
    InLoop(p) =>
        LET after == AfterCurrent(SortByVersion(given), current[p])
            gap == GapAt(after, current[p])
            done == Len(applied[p])
        IN  gap > 0
            => /\ done < gap
               /\ applied[p] = SubSeq(after, 1, done)
               /\ db.version = current[p] + done
               /\ pc[p] = "idle"
                     => /\ err[p] # NoError
                        /\ failStage[p] = "verify"
                              => /\ err[p] = MigrationVersionChanged
                                 /\ migration[p] = after[gap]
                                 /\ done = gap - 1
                        /\ failStage[p] \in {"verify", "reread", "begin", "upgrade",
                                             "setVersion", "commit"}

\* C25: every step a call has committed raised the stored version by exactly
\* one, to the version of the migration committed, and a call whose
\* migrations after the current version have a gap commits nothing beyond the
\* gap and fails with MigrationVersionChanged at the first migration whose
\* version is not the stored version + 1.
C25_GapStopsTheCall ==
    /\ InLoop(Single)
          => /\ \A i \in 1..Len(applied[Single]) :
                   applied[Single][i] = current[Single] + i
             /\ db.version = current[Single] + Len(applied[Single])
    /\ GapStops(Single)

C25_Witness ==
    /\ given = <<3, 1>>
    /\ current[Single] = 0
    /\ Returned(Single)
    /\ err[Single] = MigrationVersionChanged
    /\ applied[Single] = <<1>>
    /\ migration[Single] = 3
    /\ db.version = 1

\* ------------------------------------------------------ properties of the log
\* one entry per migration, stating the version reached
LogOf(versions) == [i \in 1..Len(versions) |-> UpgradedMessage(versions[i])]

\* C26 as stated: a call that returned success returned one log entry per
\* migration it applied, in the order of application, each stating the
\* version reached; a call that returned an error returned an empty log.
C26_LogOrError ==
    Returned(Single) =>
        /\ err[Single] = NoError => log[Single] = LogOf(applied[Single])
        /\ err[Single] # NoError => log[Single] = <<>>

\* C26 amended: the same, except that a successful call that found the
\* stored version equal to its target returned the single "already at
\* current version" entry and applied nothing.
C26_LogOrErrorOrAlreadyCurrent ==
    Returned(Single) =>
        /\ (err[Single] = NoError /\ current[Single] # target[Single])
              => log[Single] = LogOf(applied[Single])
        /\ (err[Single] = NoError /\ current[Single] = target[Single])
              => log[Single] = <<AlreadyCurrentMessage>> /\ applied[Single] = <<>>
        /\ err[Single] # NoError => log[Single] = <<>>

C26_Witness ==
    /\ Returned(Single)
    /\ err[Single] = UpgradeError
    /\ applied[Single] = <<1, 2>>
    /\ log[Single] = <<>>
    /\ calls[Single] = 2
    /\ db.version = 2

\* --------------------------------------------- properties of the file names
\* lower case of the characters and keywords that occur in names
LowerChar(c) ==
    CASE c = "S" -> "s" [] c = "Q" -> "q" [] c = "L" -> "l"
      [] c = "T" -> "t" [] c = "X" -> "x" [] OTHER -> c
LowerWay(way) ==
    CASE way = "UP" -> "up" [] way = "Up" -> "up"
      [] way = "DOWN" -> "down" [] way = "Down" -> "down" [] OTHER -> way
\* <digits>(-|_)(up|down).sql, whatever the case of the direction keyword and
\* of the extension
MatchesIgnoringCase(f) ==
    /\ Len(f.digits) >= 1
    /\ f.sep \in {"-", "_"}
    /\ LowerWay(f.way) \in {"up", "down"}
    /\ [i \in 1..Len(f.ext) |-> LowerChar(f.ext[i])] = <<"s", "q", "l">>
\* the entries groupByVersion put into a group
Grouped == UNION {Range(names[v]) : v \in DOMAIN names}

\* C27: once the directory is grouped, the entries in the groups are exactly
\* the files whose name matches <digits>(-|_)(up|down).sql, case-insensitively
\* on the direction keyword and the extension.
C27_ArtifactsAreTheMatchingNames ==
    dpc = "range" => Grouped = {f \in fs : ~f.isDir /\ MatchesIgnoringCase(f)}

\* ------------------------------------------- properties of discovery errors
\* the matching files with a version below 1
InvalidFiles(d) == {f \in Artifacts(d) : ParseInt(f.digits) < 1}

\* C28: a discovery call that returns an error returns no migration list; a
\* call that returns a list met no error, and then the directory holds no
\* file with an invalid version and no version group that is mixed,
\* duplicated or without an up file; a file with an invalid version makes
\* every call that reads the directory return the invalid-version error of
\* such a file, before any group is built.
C28_ErrorsAbortDiscovery ==
    /\ (dret.done /\ dret.err # NoFileError) => (~dret.ok /\ dret.ms = <<>>)
    /\ (dret.done /\ dret.ok)
          => /\ dret.err = NoFileError
             /\ InvalidFiles(fs) = {}
             /\ \A v \in VersionsIn(fs) : WellFormed(fs, v)
             /\ Len(dret.ms) = Cardinality(VersionsIn(fs))
    /\ (dret.done /\ dret.err # ReadDirError /\ InvalidFiles(fs) # {})
          => /\ dms = <<>>
             /\ \E f \in InvalidFiles(fs) : dret.err = InvalidVersionError(f)
    /\ (dret.done /\ dret.err.kind \in {"Mixed extensions", "Missing", "Duplicate"})
          => ~WellFormed(fs, dret.err.version)

C28_Witness ==
    /\ dret.done
    /\ dret.err = MissingMigrationError("up", 1)
    /\ Len(dms) = 2
    /\ dret.ms = <<>>
    /\ ~dret.ok

====
